---- MODULE Spec2Model ----
(***************************************************************************)
(* PubSubCreatorService (src/services/pubsub_creator.py): the service that *)
(* creates, updates and deletes Pub/Sub topics and their subscriptions     *)
(* through a publisher and a subscriber client.  The remote backend is the *)
(* pair (topics, subs); every backend call the service issues is recorded  *)
(* in calls together with its outcome.                                     *)
(***************************************************************************)
EXTENDS Integers, Sequences, FiniteSets, TLC

VARIABLES
    initialized,    \* publisher / subscriber clients were built (__init__)
    topics,         \* remote topics: name -> None | Some(topic)
    subs,           \* remote subscriptions: name -> None | Some(subscription)
    pc,             \* "idle": no request in hand; "done": a handler returned
    op,             \* the operation that ran last
    request,        \* its request object
    calls,          \* the backend calls it issued, in order, with outcomes
    result          \* what it returned (or the exception it raised)

vars == <<initialized, topics, subs, pc, op, request, calls, result>>

----------------------------------------------------------------------------
(* Optional[...] values: Python's None and a present value.                *)

None == <<>>
Some(v) == <<v>>
Val(o) == o[1]

----------------------------------------------------------------------------
(* Bounds and input domains.                                               *)

\* longest delete_subscriptions list a request carries
MaxDeleteList == 2

\* backend answers foreseen for the create_topic calls of one create
MaxCreateAttempts == 2

\* longest string handed to _parse_duration on its own
MaxDurationLen == 3

ProjectId == "p1"
\* the names in the order the backend lists them
TopicOrder == <<"orders">>
SubOrder == <<"sub-a", "sub-b">>
TopicNames == {TopicOrder[i] : i \in 1..Len(TopicOrder)}
SubNames == {SubOrder[i] : i \in 1..Len(SubOrder)}

NoLabels == {}
ProdLabels == {<<"env", "prod">>}
LabelInputs == {None, Some(NoLabels), Some(ProdLabels)}

\* duration strings are sequences of characters
DurationInputs ==
    { None,
      Some(<<"2", "m">>),
      Some(<<"0", "s">>),
      Some(<<"1", "0", "x">>),
      Some(<<>>) }

PushEndpoint == "https://example.test/push"

\* failures the backend can answer a call with whatever the remote state is
Faults == {"ok", "Unavailable", "Other"}

----------------------------------------------------------------------------
(* _parse_duration: re.match(r"^(\d+)(s|m|h)$", s), then                    *)
(* int(value) * {"s": 1, "m": 60, "h": 3600}[unit].                        *)

\* "\d" on a str pattern matches every Unicode decimal digit, and int()
\* reads them all; "U+0663" stands for ARABIC-INDIC DIGIT THREE
Digits == {"0", "1", "2", "3", "4", "5", "6", "7", "8", "9", "U+0663"}

DigitValue(c) ==
    CASE c = "0" -> 0 [] c = "1" -> 1 [] c = "2" -> 2 [] c = "3" -> 3
      [] c = "4" -> 4 [] c = "5" -> 5 [] c = "6" -> 6 [] c = "7" -> 7
      [] c = "8" -> 8 [] c = "9" -> 9 [] c = "U+0663" -> 3

RECURSIVE IntOf(_)
IntOf(ds) ==
    IF ds = <<>> THEN 0
    ELSE 10 * IntOf(SubSeq(ds, 1, Len(ds) - 1)) + DigitValue(ds[Len(ds)])

UnitSeconds(u) == CASE u = "s" -> 1 [] u = "m" -> 60 [] u = "h" -> 3600

\* "$" also matches just before one newline that ends the string
RegexBody(s) ==
    IF Len(s) > 0 /\ s[Len(s)] = "\n" THEN SubSeq(s, 1, Len(s) - 1) ELSE s

DurationMatches(s) ==
    LET b == RegexBody(s) IN
    /\ Len(b) >= 2
    /\ b[Len(b)] \in {"s", "m", "h"}
    /\ \A i \in 1..(Len(b) - 1) : b[i] \in Digits

\* None, or Some(seconds) for duration_pb2.Duration(seconds=seconds)
_parse_duration(s) ==
    IF ~DurationMatches(s) THEN None
    ELSE LET b == RegexBody(s) IN
         Some(IntOf(SubSeq(b, 1, Len(b) - 1)) * UnitSeconds(b[Len(b)]))

\* "if duration:": a protobuf Duration message is truthy whatever its fields
DurationTruthy(d) == d # None

----------------------------------------------------------------------------
(* Resource paths.                                                         *)

topic_path(project, name) == "projects/" \o project \o "/topics/" \o name
subscription_path(project, name) ==
    "projects/" \o project \o "/subscriptions/" \o name

----------------------------------------------------------------------------
(* The remote backend as the clients see it.  Each call answers with an    *)
(* outcome ("ok" or the name of the exception the client raises) and the   *)
(* remote state after it; a call that fails changes nothing.               *)

Topic(labels, retention) ==
    [labels |-> labels, message_retention_duration |-> retention]

\* what the backend gives a new subscription for each setting left out
BackendDefaults ==
    [ack_deadline_seconds |-> 10,
     retain_acked_messages |-> FALSE,
     message_retention_duration |-> 604800,
     labels |-> NoLabels,
     push_endpoint |-> ""]

OrDefault(o, d) == IF o = None THEN d ELSE Val(o)

Call(api, target, mask, fields, outcome) ==
    [api |-> api, target |-> target, mask |-> mask, fields |-> fields,
     outcome |-> outcome]

NoFields == [none |-> TRUE]

InMask(mask, path) == \E i \in 1..Len(mask) : mask[i] = path

create_topic(T, name, labels, fault) ==
    IF fault # "ok" THEN [outcome |-> fault, topics |-> T]
    ELSE IF T[name] # None THEN [outcome |-> "AlreadyExists", topics |-> T]
    ELSE [outcome |-> "ok",
          topics |-> [T EXCEPT ![name] = Some(Topic(labels, 0))]]

get_topic(T, name, fault) ==
    IF fault # "ok" THEN fault
    ELSE IF T[name] = None THEN "NotFound" ELSE "ok"

update_topic(T, name, fields, mask, fault) ==
    IF fault # "ok" THEN [outcome |-> fault, topics |-> T]
    ELSE IF T[name] = None THEN [outcome |-> "NotFound", topics |-> T]
    ELSE LET old == Val(T[name])
             new == Topic(
                 IF InMask(mask, "labels") THEN fields.labels ELSE old.labels,
                 IF InMask(mask, "message_retention_duration")
                 THEN fields.message_retention_duration
                 ELSE old.message_retention_duration)
         IN [outcome |-> "ok", topics |-> [T EXCEPT ![name] = Some(new)]]

delete_topic(T, name, fault) ==
    IF fault # "ok" THEN [outcome |-> fault, topics |-> T]
    ELSE IF T[name] = None THEN [outcome |-> "NotFound", topics |-> T]
    ELSE [outcome |-> "ok", topics |-> [T EXCEPT ![name] = None]]

\* settings: the request dictionary, a key left out being None
create_subscription(T, S, name, topic, settings, fault) ==
    IF fault # "ok" THEN [outcome |-> fault, subs |-> S]
    ELSE IF name = "" THEN [outcome |-> "InvalidArgument", subs |-> S]
    ELSE IF S[name] # None THEN [outcome |-> "AlreadyExists", subs |-> S]
    ELSE IF T[topic] = None THEN [outcome |-> "NotFound", subs |-> S]
    ELSE LET d == BackendDefaults
             new ==
                 [topic |-> topic,
                  ack_deadline_seconds |->
                      OrDefault(settings.ack_deadline_seconds,
                                d.ack_deadline_seconds),
                  retain_acked_messages |->
                      OrDefault(settings.retain_acked_messages,
                                d.retain_acked_messages),
                  message_retention_duration |->
                      OrDefault(settings.message_retention_duration,
                                d.message_retention_duration),
                  labels |-> OrDefault(settings.labels, d.labels),
                  push_endpoint |->
                      OrDefault(settings.push_config, d.push_endpoint)]
         IN [outcome |-> "ok", subs |-> [S EXCEPT ![name] = Some(new)]]

\* an empty update mask is rejected by the backend (InvalidArgument)
update_subscription(S, name, fields, mask, fault) ==
    IF fault # "ok" THEN [outcome |-> fault, subs |-> S]
    ELSE IF S[name] = None THEN [outcome |-> "NotFound", subs |-> S]
    ELSE IF mask = <<>> THEN [outcome |-> "InvalidArgument", subs |-> S]
    ELSE LET old == Val(S[name])
             pick(path, sent, kept) == IF InMask(mask, path) THEN sent ELSE kept
             new ==
                 [topic |-> old.topic,
                  ack_deadline_seconds |->
                      pick("ack_deadline_seconds",
                           fields.ack_deadline_seconds,
                           old.ack_deadline_seconds),
                  retain_acked_messages |->
                      pick("retain_acked_messages",
                           fields.retain_acked_messages,
                           old.retain_acked_messages),
                  message_retention_duration |->
                      pick("message_retention_duration",
                           fields.message_retention_duration,
                           old.message_retention_duration),
                  labels |-> pick("labels", fields.labels, old.labels),
                  push_endpoint |->
                      pick("push_config", fields.push_config,
                           old.push_endpoint)]
         IN [outcome |-> "ok", subs |-> [S EXCEPT ![name] = Some(new)]]

delete_subscription(S, name, fault) ==
    IF fault # "ok" THEN [outcome |-> fault, subs |-> S]
    ELSE IF S[name] = None THEN [outcome |-> "NotFound", subs |-> S]
    ELSE [outcome |-> "ok", subs |-> [S EXCEPT ![name] = None]]

\* list_topic_subscriptions: the subscriptions attached to a topic
list_topic_subscriptions(S, topic) ==
    {n \in SubNames : S[n] # None /\ Val(S[n]).topic = topic}

----------------------------------------------------------------------------
(* Python truthiness of the optional request attributes.                   *)

Truthy(o, empty) == o # None /\ Val(o) # empty

----------------------------------------------------------------------------
(* Response objects.  A message is <<text>> or <<prefix, detail>>.         *)

PubSubResponse(status, message, subscription) ==
    [status |-> status, message |-> message, subscription |-> subscription]

\* the "subscription" dictionary built from the subscription the backend returns
SubscriptionDict(name, sub) ==
    [name |-> subscription_path(ProjectId, name),
     topic |-> topic_path(ProjectId, sub.topic),
     push_config |->
         IF sub.push_endpoint # "" THEN Some(sub.push_endpoint) ELSE None,
     ack_deadline_seconds |-> sub.ack_deadline_seconds,
     retain_acked_messages |-> sub.retain_acked_messages,
     message_retention_duration |-> ToString(sub.message_retention_duration),
     labels |-> sub.labels]

TopicUpdateResponse(status, message, path) ==
    [raised |-> FALSE, status |-> status, message |-> message,
     topic_path |-> path,
     added_subscription |-> None, updated_subscription |-> None,
     add_subscription_error |-> None, update_subscription_error |-> None]

TopicDeleteResponse(status, message, deleted) ==
    [raised |-> FALSE, status |-> status, message |-> message,
     deleted_subscriptions |-> deleted]

SubscriptionDeleteResult(name, status, message) ==
    [name |-> name, status |-> status, message |-> message]

TopicCreateResponse(status, message, path) ==
    [raised |-> FALSE, status |-> status, message |-> message,
     topic_path |-> path]

PubSubBaseResponse(status, message) ==
    [raised |-> FALSE, status |-> status, message |-> message]

\* an exception that leaves the handler
Raised(exception) == [raised |-> TRUE, exception |-> exception]

\* what a handler leaves behind: the remote state, the calls, the result
Outcome(T, S, cs, r) == [topics |-> T, subs |-> S, calls |-> cs, result |-> r]

----------------------------------------------------------------------------
(* _update_subscription                                                    *)

\* the paths appended to update_mask, in the order the code appends them
SubscriptionUpdateMask(cfg) ==
    (IF cfg.ack_deadline_seconds # None
     THEN <<"ack_deadline_seconds">> ELSE <<>>)
    \o (IF cfg.retain_acked_messages # None
        THEN <<"retain_acked_messages">> ELSE <<>>)
    \o (IF /\ Truthy(cfg.message_retention_duration, <<>>)
           /\ DurationTruthy(
                  _parse_duration(Val(cfg.message_retention_duration)))
        THEN <<"message_retention_duration">> ELSE <<>>)
    \o (IF Truthy(cfg.labels, NoLabels) THEN <<"labels">> ELSE <<>>)
    \o (IF Truthy(cfg.push_endpoint, "") THEN <<"push_config">> ELSE <<>>)

\* the Subscription message sent: a field never assigned keeps its zero value
SubscriptionUpdateFields(cfg) ==
    LET mask == SubscriptionUpdateMask(cfg) IN
    [ack_deadline_seconds |-> OrDefault(cfg.ack_deadline_seconds, 0),
     retain_acked_messages |-> OrDefault(cfg.retain_acked_messages, FALSE),
     message_retention_duration |->
         IF InMask(mask, "message_retention_duration")
         THEN Val(_parse_duration(Val(cfg.message_retention_duration)))
         ELSE 0,
     labels |-> IF InMask(mask, "labels") THEN Val(cfg.labels) ELSE NoLabels,
     push_config |->
         IF InMask(mask, "push_config") THEN Val(cfg.push_endpoint) ELSE ""]

\* update_subscription is called whatever the mask holds
_update_subscription(S, cfg, fault) ==
    LET mask == SubscriptionUpdateMask(cfg)
        fields == SubscriptionUpdateFields(cfg)
        r == update_subscription(S, cfg.name, fields, mask, fault)
        c == Call("update_subscription", cfg.name, mask, fields, r.outcome)
    IN  [subs |-> r.subs,
         calls |-> <<c>>,
         response |->
             IF r.outcome = "ok"
             THEN PubSubResponse(
                      "success",
                      <<"Subscription updated: ",
                        subscription_path(ProjectId, cfg.name)>>,
                      Some(SubscriptionDict(cfg.name, Val(r.subs[cfg.name]))))
             ELSE PubSubResponse(
                      "error",
                      <<"Failed to update subscription: ", r.outcome>>,
                      None)]

----------------------------------------------------------------------------
(* _add_subscription                                                       *)

\* subscription_settings: a key is set only under the code's conditions
\* variant: an attribute the configuration leaves out is sent as its default
SubscriptionSettings_DefaultsFilled(cfg) ==
    [ack_deadline_seconds |->
         Some(OrDefault(cfg.ack_deadline_seconds,
                        BackendDefaults.ack_deadline_seconds)),
     retain_acked_messages |->
         Some(OrDefault(cfg.retain_acked_messages,
                        BackendDefaults.retain_acked_messages)),
     message_retention_duration |->
         IF Truthy(cfg.message_retention_duration, <<>>)
         THEN _parse_duration(Val(cfg.message_retention_duration))
         ELSE Some(BackendDefaults.message_retention_duration),
     labels |-> IF Truthy(cfg.labels, NoLabels) THEN cfg.labels ELSE None,
     push_config |->
         IF Truthy(cfg.push_endpoint, "") THEN cfg.push_endpoint ELSE None]

SubscriptionSettings(cfg) ==
    [ack_deadline_seconds |-> cfg.ack_deadline_seconds,
     retain_acked_messages |-> cfg.retain_acked_messages,
     message_retention_duration |->
         IF Truthy(cfg.message_retention_duration, <<>>)
         THEN _parse_duration(Val(cfg.message_retention_duration))
         ELSE None,
     labels |-> IF Truthy(cfg.labels, NoLabels) THEN cfg.labels ELSE None,
     push_config |->
         IF Truthy(cfg.push_endpoint, "") THEN cfg.push_endpoint ELSE None]

\* variant: a failed add removes the subscription of that name
_add_subscription_CleanupOnError(T, S, topic, cfg, fault) ==
    LET settings == SubscriptionSettings(cfg)
        r == create_subscription(T, S, cfg.name, topic, settings, fault)
        c == Call("create_subscription", cfg.name, <<>>, settings, r.outcome)
    IN  IF r.outcome = "ok"
        THEN [subs |-> r.subs,
              calls |-> <<c>>,
              response |->
                  PubSubResponse(
                      "success",
                      <<"Subscription added: ",
                        subscription_path(ProjectId, cfg.name)>>,
                      Some(SubscriptionDict(cfg.name, Val(r.subs[cfg.name]))))]
        ELSE [subs |-> [S EXCEPT ![cfg.name] = None],
              calls |-> <<c>>,
              response |->
                  PubSubResponse(
                      "error",
                      <<"Failed to add subscription: ", r.outcome>>,
                      None)]

_add_subscription(T, S, topic, cfg, fault) ==
    LET settings == SubscriptionSettings(cfg)
        r == create_subscription(T, S, cfg.name, topic, settings, fault)
        c == Call("create_subscription", cfg.name, <<>>, settings, r.outcome)
    IN  [subs |-> r.subs,
         calls |-> <<c>>,
         response |->
             IF r.outcome = "ok"
             THEN PubSubResponse(
                      "success",
                      <<"Subscription added: ",
                        subscription_path(ProjectId, cfg.name)>>,
                      Some(SubscriptionDict(cfg.name, Val(r.subs[cfg.name]))))
             ELSE PubSubResponse(
                      "error",
                      <<"Failed to add subscription: ", r.outcome>>,
                      None)]

----------------------------------------------------------------------------
(* update_pubsub_topic                                                     *)

\* variant: labels enter the mask by truthiness ("if topic_update.labels:")
TopicUpdateMask_Truthy(req) ==
    (IF Truthy(req.labels, NoLabels) THEN <<"labels">> ELSE <<>>)
    \o (IF /\ req.message_retention_duration # None
           /\ DurationTruthy(
                  _parse_duration(Val(req.message_retention_duration)))
        THEN <<"message_retention_duration">> ELSE <<>>)

\* update_mask.paths after the two attribute checks
TopicUpdateMask(req) ==
    (IF req.labels # None THEN <<"labels">> ELSE <<>>)
    \o (IF /\ req.message_retention_duration # None
           /\ DurationTruthy(
                  _parse_duration(Val(req.message_retention_duration)))
        THEN <<"message_retention_duration">> ELSE <<>>)

\* variant: a duration that does not parse is dropped, not rejected
TopicDurationRejected_Dropped(req) == FALSE

\* the early return: a duration is given and does not parse
TopicDurationRejected(req) ==
    /\ req.message_retention_duration # None
    /\ ~DurationTruthy(_parse_duration(Val(req.message_retention_duration)))

\* the Topic message sent
TopicUpdateFields(req) ==
    LET mask == TopicUpdateMask(req) IN
    [labels |-> IF InMask(mask, "labels") THEN Val(req.labels) ELSE NoLabels,
     message_retention_duration |->
         IF InMask(mask, "message_retention_duration")
         THEN Val(_parse_duration(Val(req.message_retention_duration)))
         ELSE 0]

\* variant: update_topic is called whatever the mask holds
TopicMutationNeeded_Always(mask) == TRUE

\* variant: the subscription update is skipped once the add has failed
UpdateRequested_UnlessAddFailed(req, addResponse) ==
    /\ req.update_subscription # None
    /\ (req.add_subscription = None \/ addResponse.status = "success")

\* "if update_mask.paths:"
TopicMutationNeeded(mask) == mask # <<>>

\* "if topic_update.add_subscription:" / "if topic_update.update_subscription:"
AddRequested(req) == req.add_subscription # None
UpdateRequested(req, addResponse) == req.update_subscription # None

\* variant: a failed add turns the whole result into an error
AttachAdded_FailsResult(res, response) ==
    IF response.status = "success"
    THEN [res EXCEPT !.added_subscription = Some(response)]
    ELSE [res EXCEPT !.status = "error",
                     !.add_subscription_error = Some(response.message)]

\* the sub-result is filed under the field its status selects
AttachAdded(res, response) ==
    IF response.status = "success"
    THEN [res EXCEPT !.added_subscription = Some(response)]
    ELSE [res EXCEPT !.add_subscription_error = Some(response.message)]

AttachUpdated(res, response) ==
    IF response.status = "success"
    THEN [res EXCEPT !.updated_subscription = Some(response)]
    ELSE [res EXCEPT !.update_subscription_error = Some(response.message)]

NoSubStep(S) == [subs |-> S, calls |-> <<>>, response |-> None]

\* variant: an exception of update_topic is swallowed and the handler goes on
TopicCallFailed_Ignored(outcome) == FALSE

\* an exception of update_topic leaves the try block for "except Exception"
TopicCallFailed(outcome) == outcome # "ok"

update_pubsub_topic(T, S, req, f) ==
    LET name == req.topic_name
        path == topic_path(ProjectId, name)
        mask == TopicUpdateMask(req)
        fields == TopicUpdateFields(req)
    IN
    IF ~initialized
    THEN Outcome(T, S, <<>>,
                 TopicUpdateResponse(
                     "error", <<"PubSub service not initialized">>, ""))
    ELSE IF TopicDurationRejected(req)
    THEN Outcome(T, S, <<>>,
                 TopicUpdateResponse(
                     "error", <<"Invalid message_retention_duration format">>,
                     path))
    ELSE
    LET mutate == TopicMutationNeeded(mask)
        t == IF mutate THEN update_topic(T, name, fields, mask, f.topic)
             ELSE [outcome |-> "ok", topics |-> T]
        tcalls == IF mutate
                  THEN <<Call("update_topic", name, mask, fields, t.outcome)>>
                  ELSE <<>>
    IN
    IF TopicCallFailed(t.outcome)
    THEN Outcome(T, S, tcalls,
                 TopicUpdateResponse(
                     "error", <<"Failed to update topic: ", t.outcome>>, path))
    ELSE
    LET res0 == TopicUpdateResponse(
                    "success",
                    IF mutate THEN <<"Topic updated: ", path>>
                    ELSE <<"No updates were necessary for the topic">>,
                    path)
        a == IF AddRequested(req)
             THEN _add_subscription(t.topics, S, name,
                                    Val(req.add_subscription), f.add)
             ELSE NoSubStep(S)
        res1 == IF AddRequested(req) THEN AttachAdded(res0, a.response)
                ELSE res0
        u == IF UpdateRequested(req, a.response)
             THEN _update_subscription(a.subs, Val(req.update_subscription),
                                       f.update)
             ELSE NoSubStep(a.subs)
        res2 == IF UpdateRequested(req, a.response)
                THEN AttachUpdated(res1, u.response)
                ELSE res1
    IN  Outcome(t.topics, u.subs, tcalls \o a.calls \o u.calls, res2)

----------------------------------------------------------------------------
(* delete_pubsub_topic                                                     *)

\* the outcome appended for one name of delete_subscriptions
DeletedEntry(name, outcome) ==
    IF outcome = "ok"
    THEN SubscriptionDeleteResult(name, "success",
                                  <<"Subscription deleted: ", name>>)
    ELSE IF outcome = "NotFound"
    THEN SubscriptionDeleteResult(name, "error",
                                  <<"Subscription not found: ", name>>)
    ELSE SubscriptionDeleteResult(name, "error",
                                  <<"Failed to delete subscription: ", outcome>>)

\* variant: the loop stops at the first name whose deletion fails
RECURSIVE DeleteSubscriptions_StopOnError(_, _, _)
DeleteSubscriptions_StopOnError(S, names, faults) ==
    IF names = <<>>
    THEN [subs |-> S, calls |-> <<>>, deleted |-> <<>>]
    ELSE LET n == Head(names)
             r == delete_subscription(S, n, Head(faults))
             c == Call("delete_subscription", n, <<>>, NoFields, r.outcome)
             rest == IF r.outcome = "ok"
                     THEN DeleteSubscriptions_StopOnError(
                              r.subs, Tail(names), Tail(faults))
                     ELSE [subs |-> r.subs, calls |-> <<>>, deleted |-> <<>>]
         IN  [subs |-> rest.subs,
              calls |-> <<c>> \o rest.calls,
              deleted |-> <<DeletedEntry(n, r.outcome)>> \o rest.deleted]

\* variant: once the names are done, every subscription left is removed
RECURSIVE DeleteSubscriptions_Everything(_, _, _)
DeleteSubscriptions_Everything(S, names, faults) ==
    IF names = <<>>
    THEN [subs |-> [n \in DOMAIN S |-> None], calls |-> <<>>,
          deleted |-> <<>>]
    ELSE LET n == Head(names)
             r == delete_subscription(S, n, Head(faults))
             c == Call("delete_subscription", n, <<>>, NoFields, r.outcome)
             rest == DeleteSubscriptions_Everything(r.subs, Tail(names),
                                                    Tail(faults))
         IN  [subs |-> rest.subs,
              calls |-> <<c>> \o rest.calls,
              deleted |-> <<DeletedEntry(n, r.outcome)>> \o rest.deleted]

\* the for loop over delete_subscriptions
RECURSIVE DeleteSubscriptions(_, _, _)
DeleteSubscriptions(S, names, faults) ==
    IF names = <<>>
    THEN [subs |-> S, calls |-> <<>>, deleted |-> <<>>]
    ELSE LET n == Head(names)
             r == delete_subscription(S, n, Head(faults))
             c == Call("delete_subscription", n, <<>>, NoFields, r.outcome)
             rest == DeleteSubscriptions(r.subs, Tail(names), Tail(faults))
         IN  [subs |-> rest.subs,
              calls |-> <<c>> \o rest.calls,
              deleted |-> <<DeletedEntry(n, r.outcome)>> \o rest.deleted]

\* variant: the outcomes collected are not put into the response
DeletedOrNone_Dropped(deleted) == None

\* "deleted_subscriptions if deleted_subscriptions else None"
DeletedOrNone(deleted) == IF deleted # <<>> THEN Some(deleted) ELSE None

\* variant: "except exceptions.NotFound: pass"
ExistenceCheck_NotFoundIgnored(g) ==
    IF g = "NotFound" \/ g = "ok" THEN "found" ELSE "raise"

\* the try block around get_topic: only NotFound is caught
ExistenceCheck(g) ==
    IF g = "NotFound" THEN "missing"
    ELSE IF g # "ok" THEN "raise"
    ELSE "found"

\* variant: a topic that is gone already counts as deleted
TopicDeleteResult_GoneIsSuccess(path, outcome, deleted) ==
    IF outcome \in {"ok", "NotFound"}
    THEN TopicDeleteResponse("success", <<"Topic deleted: ", path>>,
                             DeletedOrNone(deleted))
    ELSE TopicDeleteResponse("error", <<"Failed to delete topic: ", outcome>>,
                             DeletedOrNone(deleted))

\* the try block around delete_topic: what the handler returns
TopicDeleteResult(path, outcome, deleted) ==
    IF outcome = "ok"
    THEN TopicDeleteResponse("success", <<"Topic deleted: ", path>>,
                             DeletedOrNone(deleted))
    ELSE TopicDeleteResponse("error", <<"Failed to delete topic: ", outcome>>,
                             DeletedOrNone(deleted))

delete_pubsub_topic(T, S, req, f) ==
    LET name == req.topic_name
        path == topic_path(ProjectId, name)
    IN
    IF ~initialized
    THEN Outcome(T, S, <<>>,
                 TopicDeleteResponse(
                     "error", <<"PubSub service not initialized">>, None))
    ELSE
    LET g == get_topic(T, name, f.get)
        gcall == Call("get_topic", name, <<>>, NoFields, g)
    IN
    IF ExistenceCheck(g) = "missing"
    THEN Outcome(T, S, <<gcall>>,
                 TopicDeleteResponse("error", <<"Topic not found: ", path>>,
                                     None))
    ELSE IF ExistenceCheck(g) = "raise"
    THEN Outcome(T, S, <<gcall>>, Raised(g))
    ELSE
    LET names == IF req.delete_subscriptions = None THEN <<>>
                 ELSE Val(req.delete_subscriptions)
        d == DeleteSubscriptions(S, names, f.subs)
        t == delete_topic(T, name, f.topic)
        tcall == Call("delete_topic", name, <<>>, NoFields, t.outcome)
    IN  Outcome(t.topics, d.subs, <<gcall>> \o d.calls \o <<tcall>>,
                TopicDeleteResult(path, t.outcome, d.deleted))

----------------------------------------------------------------------------
(* create_pubsub_topic: the function body, then the Retry decorator, which *)
(* re-runs the body only when it raises a transient error.                 *)

\* variant: the labels of the request are not passed on
CreateLabels_Dropped(req) == NoLabels

\* "topic_create.labels or {}"
CreateLabels(req) ==
    IF Truthy(req.labels, NoLabels) THEN Val(req.labels) ELSE NoLabels

\* the decorated function: one create_topic call, every exception caught
create_pubsub_topic_body(T, S, req, fault) ==
    IF ~initialized
    THEN Outcome(T, S, <<>>, Raised("AttributeError"))
    ELSE
    LET path == topic_path(req.project_id, req.topic_name)
        labels == CreateLabels(req)
        r == create_topic(T, req.topic_name, labels, fault)
        c == Call("create_topic", req.topic_name, <<>>, [labels |-> labels],
                  r.outcome)
    IN  Outcome(r.topics, S, <<c>>,
                IF r.outcome = "ok"
                THEN TopicCreateResponse("success", <<"Topic created: ", path>>,
                                         path)
                ELSE TopicCreateResponse(
                         "error", <<"Failed to create topic: ", r.outcome>>,
                         ""))

\* retry.if_transient_error: the exceptions Retry() runs the function again on
Transient(exception) ==
    exception \in {"Unavailable", "InternalServerError", "TooManyRequests"}

\* @retry.Retry(): faults[i] is what the backend would answer to attempt i
RECURSIVE create_pubsub_topic(_, _, _, _)
create_pubsub_topic(T, S, req, faults) ==
    LET out == create_pubsub_topic_body(T, S, req, Head(faults)) IN
    IF /\ out.result.raised
       /\ Transient(out.result.exception)
       /\ Len(faults) > 1
    THEN LET again == create_pubsub_topic(out.topics, out.subs, req,
                                          Tail(faults))
         IN  Outcome(again.topics, again.subs, out.calls \o again.calls,
                     again.result)
    ELSE out

----------------------------------------------------------------------------
(* delete_pubsub_subscription                                              *)

\* variant: a subscription the backend does not find counts as deleted
delete_pubsub_subscription_NotFoundIsSuccess(T, S, req, fault) ==
    LET name == req.subscription_name
        path == subscription_path(ProjectId, name)
    IN
    IF ~initialized
    THEN Outcome(T, S, <<>>,
                 PubSubBaseResponse("error",
                                    <<"PubSub service not initialized">>))
    ELSE
    LET r == delete_subscription(S, name, fault)
        c == Call("delete_subscription", name, <<>>, NoFields, r.outcome)
    IN  Outcome(T, r.subs, <<c>>,
                IF r.outcome \in {"ok", "NotFound"}
                THEN PubSubBaseResponse("success",
                                        <<"Subscription deleted: ", path>>)
                ELSE PubSubBaseResponse(
                         "error",
                         <<"Failed to delete subscription: ", r.outcome>>))

delete_pubsub_subscription(T, S, req, fault) ==
    LET name == req.subscription_name
        path == subscription_path(ProjectId, name)
    IN
    IF ~initialized
    THEN Outcome(T, S, <<>>,
                 PubSubBaseResponse("error",
                                    <<"PubSub service not initialized">>))
    ELSE
    LET r == delete_subscription(S, name, fault)
        c == Call("delete_subscription", name, <<>>, NoFields, r.outcome)
    IN  Outcome(T, r.subs, <<c>>,
                IF r.outcome = "ok"
                THEN PubSubBaseResponse("success",
                                        <<"Subscription deleted: ", path>>)
                ELSE IF r.outcome = "NotFound"
                THEN PubSubBaseResponse("error",
                                        <<"Subscription not found: ", path>>)
                ELSE PubSubBaseResponse(
                         "error",
                         <<"Failed to delete subscription: ", r.outcome>>))

----------------------------------------------------------------------------
(* _list_topic_subscriptions, get_pubsub_topic, list_pubsub_topics         *)

Subscription(name, sub) ==
    [name |-> subscription_path(ProjectId, name),
     full_name |-> subscription_path(ProjectId, name),
     push_config |->
         IF sub.push_endpoint # "" THEN Some(sub.push_endpoint) ELSE None,
     ack_deadline_seconds |-> sub.ack_deadline_seconds,
     message_retention_duration |-> ToString(sub.message_retention_duration),
     labels |-> sub.labels]

get_subscription(S, name, fault) ==
    IF fault # "ok" THEN fault
    ELSE IF S[name] = None THEN "NotFound" ELSE "ok"

\* f.list: the listing call; f.subs[n]: the get_subscription call for n.
\* Any exception empties the whole list.
_list_topic_subscriptions(S, topic, f) ==
    LET lcall == Call("list_topic_subscriptions", topic, <<>>, NoFields,
                      f.list)
        attached == SelectSeq(SubOrder,
                              LAMBDA n : n \in list_topic_subscriptions(S, topic))
        got(n) == get_subscription(S, n, f.subs[n])
        failing == {i \in 1..Len(attached) : got(attached[i]) # "ok"}
        stop == IF failing = {} THEN Len(attached)
                ELSE CHOOSE i \in failing : \A j \in failing : i <= j
        gcalls == [i \in 1..stop |->
                      Call("get_subscription", attached[i], <<>>, NoFields,
                           got(attached[i]))]
    IN  IF f.list # "ok"
        THEN [calls |-> <<lcall>>, subscriptions |-> <<>>]
        ELSE [calls |-> <<lcall>> \o gcalls,
              subscriptions |->
                  IF failing # {} THEN <<>>
                  ELSE [i \in 1..Len(attached) |->
                           Subscription(attached[i], Val(S[attached[i]]))]]

PubSubTopicResponse(status, topic, message) ==
    [raised |-> FALSE, status |-> status, topic |-> topic, message |-> message]

PubSubListResponse(status, topicList, message) ==
    [raised |-> FALSE, status |-> status, topics |-> topicList,
     message |-> message]

get_pubsub_topic(T, S, name, f) ==
    IF ~initialized
    THEN Outcome(T, S, <<>>,
                 PubSubTopicResponse("error", None,
                                     Some(<<"PubSub service not initialized">>)))
    ELSE
    LET g == get_topic(T, name, f.get)
        gcall == Call("get_topic", name, <<>>, NoFields, g)
        l == _list_topic_subscriptions(S, name, f)
    IN  IF g # "ok"
        THEN Outcome(T, S, <<gcall>>,
                     PubSubTopicResponse("error", None,
                                         Some(<<"Failed to get topic: ", g>>)))
        ELSE Outcome(T, S, <<gcall>> \o l.calls,
                     PubSubTopicResponse(
                         "success",
                         Some([name |-> topic_path(ProjectId, name),
                               labels |-> Val(T[name]).labels,
                               message_retention_duration |->
                                   Val(T[name]).message_retention_duration,
                               subscriptions |-> l.subscriptions]),
                         None))

RECURSIVE ListTopics(_, _, _, _)
ListTopics(T, S, names, f) ==
    IF names = <<>> THEN [calls |-> <<>>, topicList |-> <<>>]
    ELSE LET n == Head(names)
             l == _list_topic_subscriptions(S, n, f)
             rest == ListTopics(T, S, Tail(names), f)
         IN  [calls |-> l.calls \o rest.calls,
              topicList |->
                  <<[name |-> topic_path(ProjectId, n),
                     labels |-> Val(T[n]).labels,
                     subscriptions |-> l.subscriptions]>> \o rest.topicList]

list_pubsub_topics(T, S, f) ==
    IF ~initialized
    THEN Outcome(T, S, <<>>,
                 PubSubListResponse("error", None,
                                    Some(<<"PubSub service not initialized">>)))
    ELSE
    LET lcall == Call("list_topics", ProjectId, <<>>, NoFields, f.get)
        existing == SelectSeq(TopicOrder, LAMBDA n : T[n] # None)
        l == ListTopics(T, S, existing, f)
    IN  IF f.get # "ok"
        THEN Outcome(T, S, <<lcall>>,
                     PubSubListResponse("error", None,
                                        Some(<<"Failed to list topics: ", f.get>>)))
        ELSE Outcome(T, S, <<lcall>> \o l.calls,
                     PubSubListResponse("success", Some(l.topicList), None))

----------------------------------------------------------------------------
(* Requests.                                                               *)

SubscriptionConfig(name, push, ack, retain, duration, labels) ==
    [name |-> name, push_endpoint |-> push, ack_deadline_seconds |-> ack,
     retain_acked_messages |-> retain,
     message_retention_duration |-> duration, labels |-> labels]

\* a configuration that names the subscription only, and one that sets every
\* attribute
BasicConfigs ==
    {SubscriptionConfig(n, None, None, None, None, None) : n \in SubNames}
    \cup {SubscriptionConfig(n, Some(PushEndpoint), Some(20), Some(TRUE),
                             Some(<<"2", "m">>), Some(ProdLabels))
          : n \in SubNames}

\* every combination of absent, empty and set attributes
FullConfigs ==
    {SubscriptionConfig(n, p, a, r, d, l) :
        n \in SubNames, p \in {None, Some(""), Some(PushEndpoint)},
        a \in {None, Some(20)}, r \in {None, Some(TRUE)},
        d \in DurationInputs, l \in LabelInputs}

TopicUpdate(name, labels, duration, add, update) ==
    [topic_name |-> name, labels |-> labels,
     message_retention_duration |-> duration,
     add_subscription |-> add, update_subscription |-> update]

OptionalOf(S) == {None} \cup {Some(x) : x \in S}

TopicUpdateRequests ==
    {TopicUpdate(n, l, d, a, u) :
        n \in TopicNames, l \in LabelInputs, d \in DurationInputs,
        a \in OptionalOf(BasicConfigs), u \in OptionalOf(BasicConfigs)}

\* updates that carry an update_subscription only
SubscriptionUpdateRequests ==
    {TopicUpdate(n, None, None, None, Some(u)) :
        n \in TopicNames, u \in FullConfigs}

UpdateFaults == [topic : Faults, add : Faults, update : Faults]

NameLists ==
    UNION {[1..k -> SubNames] : k \in 0..MaxDeleteList}

TopicDeleteRequests ==
    {[topic_name |-> n, delete_subscriptions |-> d] :
        n \in TopicNames, d \in OptionalOf(NameLists)}

DeleteFaults(req) ==
    LET k == IF req.delete_subscriptions = None THEN 0
             ELSE Len(Val(req.delete_subscriptions))
    IN  [get : Faults, subs : [1..k -> Faults], topic : Faults]

TopicCreateRequests ==
    {[project_id |-> ProjectId, topic_name |-> n, labels |-> l] :
        n \in TopicNames, l \in LabelInputs}

CreateFaults == [1..MaxCreateAttempts -> Faults]

SubscriptionDeleteRequests == {[subscription_name |-> n] : n \in SubNames}

ReadFaults == [get : Faults, list : Faults, subs : [SubNames -> Faults]]

----------------------------------------------------------------------------
(* The state machine: a handler runs from "idle" to "done" in one step;    *)
(* the controller then hands the result back.                              *)

NoTopics == [n \in TopicNames |-> None]
NoSubs == [n \in SubNames |-> None]

Init ==
    /\ initialized \in BOOLEAN
    /\ topics = NoTopics
    /\ subs = NoSubs
    /\ pc = "idle"
    /\ op = "none"
    /\ request = None
    /\ calls = <<>>
    /\ result = None

Finish(name, req, out) ==
    /\ pc' = "done"
    /\ op' = name
    /\ request' = req
    /\ topics' = out.topics
    /\ subs' = out.subs
    /\ calls' = out.calls
    /\ result' = out.result
    /\ UNCHANGED initialized

CreateTopic ==
    /\ pc = "idle"
    /\ \E req \in TopicCreateRequests, f \in CreateFaults :
           Finish("create", req, create_pubsub_topic(topics, subs, req, f))

DeleteTopic ==
    /\ pc = "idle"
    /\ \E req \in TopicDeleteRequests :
           \E f \in DeleteFaults(req) :
               Finish("delete", req, delete_pubsub_topic(topics, subs, req, f))

DeleteSubscription ==
    /\ pc = "idle"
    /\ \E req \in SubscriptionDeleteRequests, f \in Faults :
           Finish("delete_subscription", req,
                  delete_pubsub_subscription(topics, subs, req, f))

UpdateTopic ==
    /\ pc = "idle"
    /\ \E req \in TopicUpdateRequests, f \in UpdateFaults :
           Finish("update", req, update_pubsub_topic(topics, subs, req, f))

GetTopic ==
    /\ pc = "idle"
    /\ \E n \in TopicNames, f \in ReadFaults :
           Finish("get", [topic_name |-> n],
                  get_pubsub_topic(topics, subs, n, f))

ListAllTopics ==
    /\ pc = "idle"
    /\ \E f \in ReadFaults :
           Finish("list", None, list_pubsub_topics(topics, subs, f))

\* the controller returns jsonify(result)
Respond ==
    /\ pc = "done"
    /\ pc' = "idle"
    /\ op' = "none"
    /\ request' = None
    /\ calls' = <<>>
    /\ result' = None
    /\ UNCHANGED <<initialized, topics, subs>>

Next ==
    \/ CreateTopic
    \/ DeleteTopic
    \/ DeleteSubscription
    \/ UpdateTopic
    \/ GetTopic
    \/ ListAllTopics
    \/ Respond

Spec == Init /\ [][Next]_vars

----------------------------------------------------------------------------
(* Subscription updates over every combination of attributes, against a    *)
(* topic that has one subscription attached.                               *)

InitSubscription ==
    /\ initialized = TRUE
    /\ topics = [n \in TopicNames |-> Some(Topic(NoLabels, 0))]
    /\ subs = [n \in SubNames |->
                  IF n = SubOrder[1]
                  THEN Some([topic |-> TopicOrder[1]] @@ BackendDefaults)
                  ELSE None]
    /\ pc = "idle"
    /\ op = "none"
    /\ request = None
    /\ calls = <<>>
    /\ result = None

UpdateSubscription ==
    /\ pc = "idle"
    /\ \E req \in SubscriptionUpdateRequests, f \in UpdateFaults :
           Finish("update", req, update_pubsub_topic(topics, subs, req, f))

NextSubscription ==
    \/ UpdateSubscription
    \/ Respond

SubscriptionSpec == InitSubscription /\ [][NextSubscription]_vars

----------------------------------------------------------------------------
(* Properties of update_pubsub_topic and delete_pubsub_topic.              *)

UpdateDone == pc = "done" /\ op = "update"
DeleteDone == pc = "done" /\ op = "delete"

CallsOf(api) == {i \in 1..Len(calls) : calls[i].api = api}

\* a duration string is given and does not match the pattern
InvalidGiven(o) == o # None /\ ~DurationMatches(Val(o))

\* C1: a topic update whose message_retention_duration is given and does not
\* match ^\d+(s|m|h)$ returns status "error" and issues no backend call,
\* whatever else the request carries; the message is the "Invalid ..." one
\* (with the clients not built, the "not initialized" one).
C1_InvalidDurationFailsFast ==
    (UpdateDone /\ InvalidGiven(request.message_retention_duration))
    => /\ ~result.raised
       /\ result.status = "error"
       /\ calls = <<>>
       /\ initialized =>
              result.message = <<"Invalid message_retention_duration format">>

C1_Witness ==
    /\ UpdateDone
    /\ initialized
    /\ request.message_retention_duration = Some(<<"1", "0", "x">>)
    /\ request.labels = Some(ProdLabels)
    /\ request.add_subscription # None
    /\ request.update_subscription # None
    /\ result.status = "error"

\* the delete request's names, and the outcomes the result carries
RequestedNames ==
    IF request.delete_subscriptions = None THEN <<>>
    ELSE Val(request.delete_subscriptions)

DeletedList ==
    IF result.deleted_subscriptions = None THEN <<>>
    ELSE Val(result.deleted_subscriptions)

\* the existence check of a delete answered that the topic exists
TopicFound ==
    /\ DeleteDone
    /\ Len(calls) >= 1
    /\ calls[1].api = "get_topic"
    /\ calls[1].outcome = "ok"

\* C2: a topic delete against an existing topic attempts every name of
\* delete_subscriptions in request order and reports one outcome per name, in
\* that order: "success" where the deletion succeeded (the subscription is
\* then gone), "error" where it was not found or failed; whatever the
\* outcomes, delete_topic is then called, and the topic is gone and the
\* status is "success" exactly when that call succeeds.
C2_CascadeOutcomePerName ==
    TopicFound =>
        LET k == Len(RequestedNames) IN
        /\ ~result.raised
        /\ Len(calls) = k + 2
        /\ Len(DeletedList) = k
        /\ \A i \in 1..k :
               /\ calls[i + 1].api = "delete_subscription"
               /\ calls[i + 1].target = RequestedNames[i]
               /\ DeletedList[i].name = RequestedNames[i]
               /\ DeletedList[i].status =
                      IF calls[i + 1].outcome = "ok" THEN "success" ELSE "error"
               /\ DeletedList[i].status = "success"
                      => subs[RequestedNames[i]] = None
        /\ calls[k + 2].api = "delete_topic"
        /\ result.status = "success" <=> calls[k + 2].outcome = "ok"
        /\ topics[request.topic_name] = None <=> calls[k + 2].outcome = "ok"

C2_Witness ==
    /\ TopicFound
    /\ Len(RequestedNames) = 2
    /\ DeletedList[1].status = "error"
    /\ calls[2].outcome = "NotFound"
    /\ DeletedList[2].status = "success"
    /\ result.status = "success"
    /\ topics[request.topic_name] = None

\* C3: no operation raises to its caller: with the clients built, whatever
\* the backend answers to each call, the handler returns a result that has a
\* status.
C3_NeverRaises ==
    (pc = "done" /\ initialized)
    => /\ ~result.raised
       /\ result.status \in {"success", "error"}

\* the topic-level step of an update went through: no update_topic call was
\* needed, or the one issued succeeded
TopicStepOk ==
    /\ UpdateDone
    /\ initialized
    /\ ~TopicDurationRejected(request)
    /\ \A i \in CallsOf("update_topic") : calls[i].outcome = "ok"

\* the sub-operation's call succeeded
SubCallOk(api) ==
    /\ CallsOf(api) # {}
    /\ \A i \in CallsOf(api) : calls[i].outcome = "ok"

\* C4: when the topic-level mutation of an update succeeded or was a no-op,
\* the status is "success" for every pair of outcomes of the add and the
\* update sub-operations; a failed add shows in add_subscription_error only,
\* a successful one in added_subscription only, and likewise for the update.
C4_StatusIgnoresSubOutcomes ==
    TopicStepOk =>
        /\ ~result.raised
        /\ result.status = "success"
        /\ result.added_subscription # None
               <=> (request.add_subscription # None
                    /\ SubCallOk("create_subscription"))
        /\ result.add_subscription_error # None
               <=> (request.add_subscription # None
                    /\ ~SubCallOk("create_subscription"))
        /\ result.updated_subscription # None
               <=> (request.update_subscription # None
                    /\ SubCallOk("update_subscription"))
        /\ result.update_subscription_error # None
               <=> (request.update_subscription # None
                    /\ ~SubCallOk("update_subscription"))

C4_Witness ==
    /\ TopicStepOk
    /\ CallsOf("update_topic") # {}
    /\ result.status = "success"
    /\ result.add_subscription_error # None
    /\ result.added_subscription = None
    /\ result.updated_subscription # None
    /\ result.update_subscription_error = None

\* the position of each api in the order topic mutation, add, update
Rank(api) ==
    CASE api = "update_topic" -> 1
      [] api = "create_subscription" -> 2
      [] api = "update_subscription" -> 3
      [] OTHER -> 0

\* C5: an update issues its backend calls in the order update_topic,
\* create_subscription, update_subscription, each at most once; after the
\* topic-level step the add is attempted when requested, and the update is
\* attempted when requested whether or not the add failed; the attributes
\* update_topic wrote stay as written.
C5_CallOrderNoRollback ==
    (UpdateDone /\ initialized) =>
        /\ \A i \in 1..Len(calls) : Rank(calls[i].api) > 0
        /\ \A i, j \in 1..Len(calls) :
               i < j => Rank(calls[i].api) < Rank(calls[j].api)
        /\ TopicStepOk =>
               /\ request.add_subscription # None
                      <=> CallsOf("create_subscription") # {}
               /\ request.update_subscription # None
                      <=> CallsOf("update_subscription") # {}
               /\ \A i \in CallsOf("update_topic") :
                      LET now == Val(topics[request.topic_name]) IN
                      /\ InMask(calls[i].mask, "labels")
                             => now.labels = calls[i].fields.labels
                      /\ InMask(calls[i].mask, "message_retention_duration")
                             => now.message_retention_duration =
                                    calls[i].fields.message_retention_duration

C5_Witness ==
    /\ TopicStepOk
    /\ Len(calls) = 3
    /\ calls[1].api = "update_topic"
    /\ calls[1].mask = <<"labels", "message_retention_duration">>
    /\ calls[2].api = "create_subscription"
    /\ calls[2].outcome # "ok"
    /\ calls[3].api = "update_subscription"
    /\ Val(topics[request.topic_name]) = Topic(ProdLabels, 120)

\* the configuration of the update's update_subscription
UpdateConfig == Val(request.update_subscription)

\* an update that reached its subscription-update step
SubscriptionUpdateDone ==
    /\ TopicStepOk
    /\ request.update_subscription # None

\* C6: a subscription update whose message_retention_duration is given and
\* does not parse fails with an error and sends no update_subscription call,
\* whatever other attributes the configuration carries.
C6_InvalidSubscriptionDurationFails ==
    (SubscriptionUpdateDone
     /\ InvalidGiven(UpdateConfig.message_retention_duration))
    => /\ CallsOf("update_subscription") = {}
       /\ result.update_subscription_error # None
       /\ result.updated_subscription = None

\* no optional attribute of the configuration is present
EmptyDiff(cfg) ==
    /\ cfg.push_endpoint = None
    /\ cfg.ack_deadline_seconds = None
    /\ cfg.retain_acked_messages = None
    /\ cfg.message_retention_duration = None
    /\ cfg.labels = None

\* C7: a subscription update that carries no optional attribute sends no
\* update_subscription call and is reported as a success.
C7_EmptySubscriptionDiffIsNoOp ==
    (SubscriptionUpdateDone /\ EmptyDiff(UpdateConfig))
    => /\ CallsOf("update_subscription") = {}
       /\ result.updated_subscription # None
       /\ result.update_subscription_error = None

\* C8: an update with neither labels nor message_retention_duration issues
\* no update_topic call and returns "success" with the message "No updates
\* were necessary for the topic"; with at least one of them given, and the
\* duration valid when given, exactly one update_topic call is issued.
C8_TopicNoOpAndSingleMutation ==
    (UpdateDone /\ initialized) =>
        LET l == request.labels
            d == request.message_retention_duration
        IN  /\ (l = None /\ d = None)
                => /\ CallsOf("update_topic") = {}
                   /\ ~result.raised
                   /\ result.status = "success"
                   /\ result.message =
                          <<"No updates were necessary for the topic">>
            /\ ((l # None \/ d # None) /\ ~InvalidGiven(d))
                => Cardinality(CallsOf("update_topic")) = 1

C8_Witness ==
    /\ UpdateDone
    /\ initialized
    /\ request.labels = None
    /\ request.message_retention_duration = None
    /\ request.add_subscription # None
    /\ CallsOf("create_subscription") # {}
    /\ result.message = <<"No updates were necessary for the topic">>

\* the attribute of a remote topic, None when the topic does not exist
RemoteTopic(T, n, field) == IF T[n] = None THEN None ELSE Some(Val(T[n])[field])

\* C9: the mask of the update_topic call holds "labels" iff labels is given
\* (an empty mapping included) and "message_retention_duration" iff a valid
\* duration is given, and nothing else; an update without
\* message_retention_duration leaves the remote retention as it was, one
\* without labels leaves the remote labels as they were.
C9_TopicMaskIsExactlyThePresentFields ==
    [][(pc = "idle" /\ pc' = "done" /\ op' = "update" /\ initialized) =>
          LET l == request'.labels
              d == request'.message_retention_duration
              n == request'.topic_name
          IN  /\ \A i \in 1..Len(calls') :
                     calls'[i].api = "update_topic" =>
                         /\ InMask(calls'[i].mask, "labels") <=> l # None
                         /\ InMask(calls'[i].mask, "message_retention_duration")
                                <=> (d # None /\ DurationMatches(Val(d)))
                         /\ \A k \in 1..Len(calls'[i].mask) :
                                calls'[i].mask[k] \in
                                    {"labels", "message_retention_duration"}
              /\ (~InvalidGiven(d) /\ (l # None \/ d # None))
                     => \E i \in 1..Len(calls') : calls'[i].api = "update_topic"
              /\ d = None
                     => RemoteTopic(topics', n, "message_retention_duration")
                            = RemoteTopic(topics, n, "message_retention_duration")
              /\ l = None
                     => RemoteTopic(topics', n, "labels")
                            = RemoteTopic(topics, n, "labels")]_vars

C9_Witness ==
    /\ UpdateDone
    /\ initialized
    /\ request.labels = Some(NoLabels)
    /\ request.message_retention_duration = None
    /\ Len(calls) = 1
    /\ calls[1].api = "update_topic"
    /\ calls[1].mask = <<"labels">>
    /\ calls[1].outcome = "ok"
    /\ Val(topics[request.topic_name]) = Topic(NoLabels, 120)

\* the update_subscription call's mask holds path
Masked(path) ==
    \A i \in CallsOf("update_subscription") : InMask(calls[i].mask, path)

\* C10: the mask of a subscription update holds the identifier of each of
\* ack_deadline_seconds, retain_acked_messages, message_retention_duration,
\* labels and the push endpoint exactly when the attribute is present in
\* the configuration, an empty labels mapping or empty push endpoint
\* counting as present.
C10_SubscriptionMaskIsExactlyThePresentFields ==
    SubscriptionUpdateDone =>
        /\ CallsOf("update_subscription") # {}
        /\ Masked("ack_deadline_seconds")
               <=> UpdateConfig.ack_deadline_seconds # None
        /\ Masked("retain_acked_messages")
               <=> UpdateConfig.retain_acked_messages # None
        /\ Masked("message_retention_duration")
               <=> UpdateConfig.message_retention_duration # None
        /\ Masked("labels") <=> UpdateConfig.labels # None
        /\ Masked("push_config") <=> UpdateConfig.push_endpoint # None

----------------------------------------------------------------------------
(* The subscription add on its own: the topic exists, and updates that     *)
(* carry an add_subscription only are served, the name possibly empty.     *)

AddNames == {"sub-a", ""}

AddConfigs ==
    {SubscriptionConfig(n, p, a, r, d, l) :
        n \in AddNames, p \in {None, Some(""), Some(PushEndpoint)},
        a \in {None, Some(20)}, r \in {None, Some(TRUE)},
        d \in DurationInputs, l \in LabelInputs}

SubscriptionAddRequests ==
    {TopicUpdate(n, None, None, Some(a), None) :
        n \in TopicNames, a \in AddConfigs}

InitAdd ==
    /\ initialized = TRUE
    /\ topics = [n \in TopicNames |-> Some(Topic(NoLabels, 0))]
    /\ subs = NoSubs
    /\ pc = "idle"
    /\ op = "none"
    /\ request = None
    /\ calls = <<>>
    /\ result = None

AddSubscription ==
    /\ pc = "idle"
    /\ \E req \in SubscriptionAddRequests, f \in Faults :
           Finish("update", req,
                  update_pubsub_topic(topics, subs, req,
                                      [topic |-> "ok", add |-> f,
                                       update |-> "ok"]))

NextAdd == AddSubscription \/ Respond

AddSpec == InitAdd /\ [][NextAdd]_vars

----------------------------------------------------------------------------
(* Two delete_pubsub_topic requests served at the same time.  Each backend *)
(* call is one step, the steps of the two requests interleave; pc, request, *)
(* calls and result hold one entry per request.  What a request has        *)
(* collected in deleted_subscriptions is read off its calls.               *)

Requests == {1, 2}

ConcurrentNameLists ==
    {None, Some(<<"sub-a">>), Some(<<"sub-b", "sub-a">>)}

ConcurrentDeleteRequests ==
    {[topic_name |-> TopicOrder[1], delete_subscriptions |-> d] :
        d \in ConcurrentNameLists}

NamesOf(req) ==
    IF req.delete_subscriptions = None THEN <<>>
    ELSE Val(req.delete_subscriptions)

\* the delete_subscription calls a request has made, and their outcomes
CascadeCalls(cs) == SelectSeq(cs, LAMBDA c : c.api = "delete_subscription")

Collected(cs) ==
    [i \in 1..Len(CascadeCalls(cs)) |->
        DeletedEntry(CascadeCalls(cs)[i].target, CascadeCalls(cs)[i].outcome)]

InitConcurrent ==
    /\ initialized = TRUE
    /\ topics = [n \in TopicNames |-> Some(Topic(NoLabels, 0))]
    /\ subs = [n \in SubNames |->
                  Some([topic |-> TopicOrder[1]] @@ BackendDefaults)]
    /\ pc = [r \in Requests |-> "check"]
    /\ op = "delete"
    /\ request \in [Requests -> ConcurrentDeleteRequests]
    /\ calls = [r \in Requests |-> <<>>]
    /\ result = [r \in Requests |-> None]

\* lines 65-72: the existence check
CheckTopic(r) ==
    /\ pc[r] = "check"
    /\ \E fault \in Faults :
           LET name == request[r].topic_name
               g == get_topic(topics, name, fault)
               gcall == Call("get_topic", name, <<>>, NoFields, g)
           IN  /\ calls' = [calls EXCEPT ![r] = <<gcall>>]
               /\ IF ExistenceCheck(g) = "missing"
                  THEN /\ pc' = [pc EXCEPT ![r] = "done"]
                       /\ result' =
                              [result EXCEPT ![r] =
                                  TopicDeleteResponse(
                                      "error",
                                      <<"Topic not found: ",
                                        topic_path(ProjectId, name)>>,
                                      None)]
                  ELSE IF ExistenceCheck(g) = "raise"
                  THEN /\ pc' = [pc EXCEPT ![r] = "done"]
                       /\ result' = [result EXCEPT ![r] = Raised(g)]
                  ELSE /\ pc' = [pc EXCEPT ![r] = "cascade"]
                       /\ result' = result
    /\ UNCHANGED <<initialized, topics, subs, op, request>>

\* lines 74-105: one turn of the loop over delete_subscriptions
CascadeStep(r) ==
    /\ pc[r] = "cascade"
    /\ Len(CascadeCalls(calls[r])) < Len(NamesOf(request[r]))
    /\ \E fault \in Faults :
           LET n == NamesOf(request[r])[Len(CascadeCalls(calls[r])) + 1]
               d == delete_subscription(subs, n, fault)
               c == Call("delete_subscription", n, <<>>, NoFields, d.outcome)
           IN  /\ subs' = d.subs
               /\ calls' = [calls EXCEPT ![r] = Append(@, c)]
    /\ UNCHANGED <<initialized, topics, pc, op, request, result>>

\* lines 107-125: delete_topic and the response
DeleteTopicStep(r) ==
    /\ pc[r] = "cascade"
    /\ Len(CascadeCalls(calls[r])) = Len(NamesOf(request[r]))
    /\ \E fault \in Faults :
           LET name == request[r].topic_name
               t == delete_topic(topics, name, fault)
               tcall == Call("delete_topic", name, <<>>, NoFields, t.outcome)
           IN  /\ topics' = t.topics
               /\ calls' = [calls EXCEPT ![r] = Append(@, tcall)]
               /\ result' =
                      [result EXCEPT ![r] =
                          TopicDeleteResult(topic_path(ProjectId, name),
                                            t.outcome, Collected(calls[r]))]
    /\ pc' = [pc EXCEPT ![r] = "done"]
    /\ UNCHANGED <<initialized, subs, op, request>>

NextConcurrent ==
    \E r \in Requests : CheckTopic(r) \/ CascadeStep(r) \/ DeleteTopicStep(r)

ConcurrentSpec == InitConcurrent /\ [][NextConcurrent]_vars

----------------------------------------------------------------------------
(* _parse_duration on its own: every string over a small alphabet, up to   *)
(* MaxDurationLen characters, is parsed once.                              *)

DurationAlphabet ==
    {"0", "1", "7", "U+0663", "s", "m", "h", "x", "-", ".", " ", "\n"}

DurationStrings ==
    UNION {[1..k -> DurationAlphabet] : k \in 0..MaxDurationLen}

ParserInit ==
    /\ initialized = TRUE
    /\ topics = NoTopics
    /\ subs = NoSubs
    /\ pc = "idle"
    /\ op = "none"
    /\ request \in DurationStrings
    /\ calls = <<>>
    /\ result = None

ParseDuration ==
    /\ pc = "idle"
    /\ pc' = "done"
    /\ op' = "_parse_duration"
    /\ result' = _parse_duration(request)
    /\ UNCHANGED <<initialized, topics, subs, request, calls>>

ParserNext == ParseDuration

ParserSpec == ParserInit /\ [][ParserNext]_vars

----------------------------------------------------------------------------
(* Properties of delete_pubsub_topic, create_pubsub_topic and the          *)
(* subscription add.                                                       *)

\* a handler ran: the step from "idle" to "done" of operation name
Ran(name) == pc = "idle" /\ pc' = "done" /\ op' = name /\ initialized

\* C11: a topic delete for a topic that does not exist remotely issues no
\* delete_subscription and no delete_topic call and leaves every
\* subscription (and the remote state as a whole) as it was, also when
\* delete_subscriptions names existing subscriptions; the existence check
\* answering NotFound, the result is the "Topic not found" error without
\* deleted_subscriptions.
C11_MissingTopicDeleteTouchesNothing ==
    [][(Ran("delete") /\ topics[request'.topic_name] = None) =>
          /\ \A i \in 1..Len(calls') : calls'[i].api = "get_topic"
          /\ subs' = subs
          /\ topics' = topics
          /\ calls'[1].outcome = "NotFound" =>
                 /\ ~result'.raised
                 /\ result'.status = "error"
                 /\ result'.message =
                        <<"Topic not found: ",
                          topic_path(ProjectId, request'.topic_name)>>
                 /\ result'.deleted_subscriptions = None]_vars

C11_Witness ==
    /\ DeleteDone
    /\ initialized
    /\ ~result.raised
    /\ result.status = "error"
    /\ result.message[1] = "Topic not found: "
    /\ Len(RequestedNames) = 2
    /\ \A i \in 1..2 : subs[RequestedNames[i]] # None

\* C12: when the delete_topic call fails after one or more cascade deletions
\* were attempted, the status is "error", the result carries the outcome of
\* every name, the subscriptions deleted stay deleted, no create_subscription
\* call is issued and the topic still exists.
C12_TopicFailureKeepsOutcomes ==
    (/\ TopicFound
     /\ Len(RequestedNames) >= 1
     /\ calls[Len(calls)].api = "delete_topic"
     /\ calls[Len(calls)].outcome # "ok")
    => /\ ~result.raised
       /\ result.status = "error"
       /\ result.deleted_subscriptions # None
       /\ Len(DeletedList) = Len(RequestedNames)
       /\ \A i \in 1..Len(RequestedNames) :
              /\ DeletedList[i].name = RequestedNames[i]
              /\ DeletedList[i].status = "success"
                     <=> calls[i + 1].outcome = "ok"
              /\ DeletedList[i].status = "success"
                     => subs[RequestedNames[i]] = None
       /\ CallsOf("create_subscription") = {}
       /\ topics[request.topic_name] # None

C12_Witness ==
    /\ TopicFound
    /\ Len(RequestedNames) = 2
    /\ calls[Len(calls)].outcome = "Unavailable"
    /\ result.status = "error"
    /\ DeletedList[1].status = "success"
    /\ DeletedList[2].status = "success"
    /\ subs[RequestedNames[1]] = None
    /\ subs[RequestedNames[2]] = None
    /\ topics[request.topic_name] # None

CreateDone == pc = "done" /\ op = "create"

\* C13: topic create retries: when the create_topic call fails with the
\* transient Unavailable error the call is attempted again, so a create
\* whose first attempt is Unavailable does not return after that one call.
C13_CreateRetriesUnavailable ==
    (CreateDone /\ initialized /\ calls[1].outcome = "Unavailable")
    => /\ Len(calls) >= 2
       /\ calls[2].api = "create_topic"
       /\ calls[2].outcome = "ok" => result.status = "success"

\* C14: with the clients built, create_pubsub_topic makes one create_topic
\* call.  For a topic that does not exist, when the backend accepts the call,
\* the result is "success" with the topic's full path and the topic then
\* exists with the requested labels (none when the request has none).  For
\* a topic that exists the result is "error" with an empty topic_path,
\* nothing is raised and the topic keeps its labels and retention.
C14_CreateNewOrKeepExisting ==
    [][Ran("create") =>
         LET name == request'.topic_name
             wanted == IF request'.labels = None THEN NoLabels
                       ELSE Val(request'.labels)
         IN  /\ Len(calls') = 1
             /\ calls'[1].api = "create_topic"
             /\ ~result'.raised
             /\ subs' = subs
             /\ (topics[name] = None /\ calls'[1].outcome = "ok") =>
                    /\ result'.status = "success"
                    /\ result'.topic_path = topic_path(ProjectId, name)
                    /\ topics' = [topics EXCEPT ![name] =
                                      Some(Topic(wanted, 0))]
             /\ (topics[name] # None \/ calls'[1].outcome # "ok") =>
                    /\ result'.status = "error"
                    /\ result'.topic_path = ""
                    /\ topics' = topics]_vars

\* an existing topic with labels and a retention of its own was created again
C14_Witness ==
    /\ CreateDone /\ initialized
    /\ calls[1].outcome = "AlreadyExists"
    /\ result.status = "error" /\ result.topic_path = ""
    /\ request.labels = Some(NoLabels)
    /\ topics[request.topic_name] # None
    /\ Val(topics[request.topic_name]).labels = ProdLabels
    /\ Val(topics[request.topic_name]).message_retention_duration = 120

\* every backend call of the operation was answered on the remote state alone
BackendStable ==
    \A i \in 1..Len(calls) : calls[i].outcome \notin {"Unavailable", "Other"}

NoFaults == [topic |-> "ok", add |-> "ok", update |-> "ok"]

\* C15: when the backend answers on the remote state alone (no call fails
\* for a reason of its own), a topic update issued a second time leaves the
\* topics and the subscriptions as the first call left them.
C15_SameUpdateTwiceChangesNothing ==
    [][(Ran("update") /\ BackendStable') =>
         LET second == update_pubsub_topic(topics', subs', request', NoFaults)
         IN  /\ second.topics = topics'
             /\ second.subs = subs']_vars

\* an update that changed the topic, added one subscription and updated
\* another, every call accepted
C15_Witness ==
    /\ TopicStepOk
    /\ Len(calls) = 3
    /\ BackendStable
    /\ calls[1].mask = <<"labels", "message_retention_duration">>
    /\ SubCallOk("create_subscription")
    /\ SubCallOk("update_subscription")
    /\ result.added_subscription # None
    /\ result.updated_subscription # None
    /\ Val(request.add_subscription).name # Val(request.update_subscription).name

ParseDone == pc = "done" /\ op = "_parse_duration"

\* the string is one or more digits followed by one of s, m, h
DurationForm(s) ==
    /\ Len(s) >= 2
    /\ s[Len(s)] \in {"s", "m", "h"}
    /\ \A i \in 1..(Len(s) - 1) : s[i] \in Digits

\* the number a digit string denotes, read from the left
RECURSIVE Decimal(_, _)
Decimal(ds, acc) ==
    IF ds = <<>> THEN acc
    ELSE Decimal(Tail(ds), 10 * acc + DigitValue(Head(ds)))

\* C16: the duration parser returns n seconds for "<n>s", 60 n for "<n>m"
\* and 3600 n for "<n>h", and no duration for every other string: the empty
\* one, digits without a unit, a sign or a decimal point, another unit,
\* characters before or after.
C16_ParserAcceptsExactlyTheForm ==
    ParseDone =>
        IF DurationForm(request)
        THEN LET n == Decimal(SubSeq(request, 1, Len(request) - 1), 0)
                 u == request[Len(request)]
             IN  result = Some(IF u = "s" THEN n
                               ELSE IF u = "m" THEN 60 * n ELSE 3600 * n)
        ELSE result = None

AddConfig == Val(request.add_subscription)

\* an update that reached its subscription-add step
AddDone ==
    /\ TopicStepOk
    /\ request.add_subscription # None

\* C17: a subscription add whose name is empty reports an error for the add
\* and sends no create_subscription call.
C17_EmptyNameAddFailsLocally ==
    (AddDone /\ AddConfig.name = "")
    => /\ CallsOf("create_subscription") = {}
       /\ result.add_subscription_error # None
       /\ result.added_subscription = None

\* C18: a subscription add whose message_retention_duration is given and
\* does not parse reports an error for the add and sends no
\* create_subscription call, so the subscription is not created by it.
C18_InvalidDurationAddFailsLocally ==
    (AddDone /\ AddConfig.name # ""
             /\ InvalidGiven(AddConfig.message_retention_duration))
    => /\ CallsOf("create_subscription") = {}
       /\ result.add_subscription_error # None
       /\ result.added_subscription = None

\* the request of the one create_subscription call of the add
AddSent == calls[Len(calls)].fields

SubscriptionNotFound(name) ==
    PubSubBaseResponse("error",
                       <<"Subscription not found: ",
                         subscription_path(ProjectId, name)>>)

\* C20: with the clients built, delete_pubsub_subscription never raises and
\* leaves the topics alone.  For a subscription that does not exist it
\* changes nothing and returns status "error", with the "Subscription not
\* found" message when the backend answers NotFound.  After a successful
\* delete, the same delete again returns that not-found error and leaves the
\* state as the first delete left it.
C20_DeleteMissingSubscriptionIsNotFound ==
    [][Ran("delete_subscription") =>
         LET name == request'.subscription_name
             second == delete_pubsub_subscription(topics', subs', request',
                                                  "ok")
         IN  /\ ~result'.raised
             /\ topics' = topics
             /\ Len(calls') = 1
             /\ subs[name] = None =>
                    /\ subs' = subs
                    /\ result'.status = "error"
                    /\ calls'[1].outcome = "NotFound" =>
                           result' = SubscriptionNotFound(name)
             /\ result'.status = "success" =>
                    /\ subs[name] # None
                    /\ subs' = [subs EXCEPT ![name] = None]
                    /\ second.result = SubscriptionNotFound(name)
                    /\ second.subs = subs'
                    /\ second.topics = topics']_vars

\* a subscription that does not exist was deleted while another one exists
C20_Witness ==
    /\ pc = "done" /\ op = "delete_subscription" /\ initialized
    /\ calls[1].outcome = "NotFound"
    /\ result = SubscriptionNotFound(request.subscription_name)
    /\ subs[request.subscription_name] = None
    /\ \E n \in SubNames : subs[n] # None

----------------------------------------------------------------------------
(* Properties of the reads, of the uninitialised service and of the frame  *)
(* of the writes.                                                          *)

\* a get or a list that returned "success"
ReadDone ==
    /\ pc = "done" /\ op \in {"get", "list"}
    /\ initialized
    /\ result.status = "success"

ReturnedTopics ==
    IF op = "get" THEN <<Val(result.topic)>> ELSE Val(result.topics)

Reported(t) == {t.subscriptions[i].name : i \in 1..Len(t.subscriptions)}

\* C21: a get or a list that returns "success" reports, for each topic it
\* returns, every subscription attached to the topic, also when resolving
\* one of them fails: once the subscription paths were listed, an attached
\* subscription is missing from the report only if its own
\* get_subscription call failed.
C21_ReadsReportEveryAttachedSubscription ==
    (ReadDone /\ \A i \in CallsOf("list_topic_subscriptions") :
                     calls[i].outcome = "ok")
    => \A k \in 1..Len(ReturnedTopics) : \A n \in TopicNames :
           ReturnedTopics[k].name = topic_path(ProjectId, n)
           => \A sn \in list_topic_subscriptions(subs, n) :
                  \/ subscription_path(ProjectId, sn)
                         \in Reported(ReturnedTopics[k])
                  \/ \E i \in CallsOf("get_subscription") :
                         /\ calls[i].target = sn
                         /\ calls[i].outcome # "ok"

\* what a caller can tell results apart by without reading the text of the
\* backend's exception: the status, whether a topic is carried, and the fixed
\* part of the message
ResultKind(r) ==
    <<r.status, r.topic # None,
      IF r.message = None THEN None ELSE Some(Val(r.message)[1])>>

OtherFailure ==
    [get |-> "Unavailable", list |-> "ok", subs |-> [n \in SubNames |-> "ok"]]

\* C22: a get of a topic that does not exist, answered NotFound by the
\* backend, returns a result of another kind than the one the same get
\* returns when get_topic fails for another reason.
C22_GetNotFoundIsItsOwnKind ==
    [][(Ran("get") /\ calls'[1].outcome = "NotFound") =>
         ResultKind(result') #
         ResultKind(get_pubsub_topic(topics, subs, request'.topic_name,
                                     OtherFailure).result)]_vars

\* C23: with the clients built, an update of a topic that does not exist
\* returns status "error", whatever the request carries.
C23_UpdateOfMissingTopicFails ==
    (UpdateDone /\ initialized /\ topics[request.topic_name] = None)
    => result.status = "error"

\* the calls an operation makes once at most, and once per target at most
OncePerOperation ==
    {"update_topic", "delete_topic", "get_topic", "list_topics",
     "create_subscription", "update_subscription"}

OncePerTarget == {"list_topic_subscriptions", "get_subscription"}

\* the failure of call i shows in the result the operation returned
Surfaced(i) ==
    IF result.raised THEN FALSE
    ELSE LET api == calls[i].api IN
         IF api = "create_subscription"
         THEN /\ result.add_subscription_error # None
              /\ Val(result.add_subscription_error)[2] = calls[i].outcome
         ELSE IF api = "update_subscription"
         THEN /\ result.update_subscription_error # None
              /\ Val(result.update_subscription_error)[2] = calls[i].outcome
         ELSE IF api = "delete_subscription" /\ op = "delete"
         THEN /\ Len(DeletedList) >= i - 1
              /\ DeletedList[i - 1].name = calls[i].target
              /\ DeletedList[i - 1].status = "error"
         ELSE result.status = "error"

\* C24: an operation other than the topic create makes each of its backend
\* calls once at most (the cascade of a delete: one delete_subscription call
\* per name requested), so a failed call is not attempted again; and the
\* failure of an update_topic, delete_topic, delete_subscription,
\* create_subscription, update_subscription, get_topic or list_topics call
\* shows in the result returned.
C24_OneAttemptAndFailureSurfaced ==
    (pc = "done" /\ op # "create" /\ initialized)
    => /\ \A api \in OncePerOperation : Cardinality(CallsOf(api)) <= 1
       /\ \A api \in OncePerTarget : \A i, j \in CallsOf(api) :
              calls[i].target = calls[j].target => i = j
       /\ Cardinality(CallsOf("delete_subscription")) <=
              (IF op = "delete" THEN Len(RequestedNames) ELSE 1)
       /\ \A i \in 1..Len(calls) :
              (calls[i].outcome # "ok"
               /\ calls[i].api \in OncePerOperation \cup {"delete_subscription"})
              => Surfaced(i)

\* C25: when the clients were not built, every operation returns status
\* "error" with the "not initialized" message, raises nothing and makes no
\* backend call.
C25_UninitialisedReturnsError ==
    (pc = "done" /\ ~initialized)
    => /\ calls = <<>>
       /\ ~result.raised
       /\ result.status = "error"
       /\ result.message =
              (IF op \in {"get", "list"}
               THEN Some(<<"PubSub service not initialized">>)
               ELSE <<"PubSub service not initialized">>)

Named(names) == {names[i] : i \in 1..Len(names)}

\* C26: with the clients built, a topic delete changes no subscription other
\* than the ones named in delete_subscriptions, and those only by removing
\* them; with delete_subscriptions absent or empty every subscription is
\* left as it was, those attached to the topic included, and the result,
\* when one is returned, carries no deleted_subscriptions.
C26_DeleteRemovesNamedOnly ==
    [][Ran("delete") =>
         /\ \A n \in SubNames :
                subs'[n] # subs[n]
                => /\ n \in Named(RequestedNames')
                   /\ subs'[n] = None
         /\ RequestedNames' = <<>> =>
                /\ subs' = subs
                /\ ~result'.raised => result'.deleted_subscriptions = None]_vars

\* a topic with two subscriptions attached was deleted without a cascade
C26_Witness ==
    /\ DeleteDone /\ initialized
    /\ RequestedNames = <<>>
    /\ ~result.raised
    /\ result.status = "success"
    /\ result.deleted_subscriptions = None
    /\ topics[request.topic_name] = None
    /\ \A n \in SubNames :
           subs[n] # None /\ Val(subs[n]).topic = request.topic_name

\* the update_topic call of an update failed
TopicStepFailed ==
    /\ UpdateDone
    /\ initialized
    /\ \E i \in CallsOf("update_topic") : calls[i].outcome # "ok"

\* C27: when the update_topic call of a topic update fails, no
\* create_subscription and no update_subscription call is made, the
\* subscriptions are left as they were, and the result is an error that
\* carries none of added_subscription, updated_subscription,
\* add_subscription_error, update_subscription_error.
C27_FailedTopicStepSkipsSubscriptions ==
    TopicStepFailed
    => /\ Len(calls) = 1
       /\ CallsOf("create_subscription") = {}
       /\ CallsOf("update_subscription") = {}
       /\ ~result.raised
       /\ result.status = "error"
       /\ result.message = <<"Failed to update topic: ", calls[1].outcome>>
       /\ result.added_subscription = None
       /\ result.updated_subscription = None
       /\ result.add_subscription_error = None
       /\ result.update_subscription_error = None

\* the update_topic call failed in an update that asked for an add and for
\* an update of subscriptions
C27_Witness ==
    /\ TopicStepFailed
    /\ calls[1].outcome = "Unavailable"
    /\ request.add_subscription # None
    /\ request.update_subscription # None
    /\ subs[Val(request.add_subscription).name] = None
    /\ subs[Val(request.update_subscription).name] # None
    /\ topics[request.topic_name] # None
    /\ result.status = "error"

BothDone == \A r \in Requests : pc[r] = "done"

Succeeded(r) == ~result[r].raised /\ result[r].status = "success"

\* the names a result reports as deleted
ReportedDeleted(r) ==
    IF result[r].raised \/ result[r].deleted_subscriptions = None THEN {}
    ELSE {Val(result[r].deleted_subscriptions)[i].name :
             i \in {j \in 1..Len(Val(result[r].deleted_subscriptions)) :
                      Val(result[r].deleted_subscriptions)[j].status
                          = "success"}}

\* C28: two deletes of the same existing topic served at the same time,
\* under every interleaving of their backend calls and whatever the backend
\* answers: at most one of them returns status "success" and no subscription
\* is reported deleted by both; when the existence checks are answered on
\* the remote state (found or not found) neither raises and at least one
\* returns status "error".
C28_ConcurrentDeletesOneWinner ==
    BothDone
    => /\ \A r, q \in Requests : (Succeeded(r) /\ Succeeded(q)) => r = q
       /\ \A r, q \in Requests :
              r # q => ReportedDeleted(r) \cap ReportedDeleted(q) = {}
       /\ (\A r \in Requests : calls[r][1].outcome \in {"ok", "NotFound"})
          => /\ \A r \in Requests :
                    /\ ~result[r].raised
                    /\ result[r].status \in {"success", "error"}
             /\ \E r \in Requests : result[r].status = "error"

\* both requests passed the existence check before either deleted the
\* topic, both named sub-a: one won the topic and the other the subscription
C28_Witness ==
    /\ BothDone
    /\ \A r \in Requests :
           /\ calls[r][1].outcome = "ok"
           /\ "sub-a" \in Named(NamesOf(request[r]))
    /\ Succeeded(1)
    /\ ~result[2].raised /\ result[2].status = "error"
    /\ result[2].message = <<"Failed to delete topic: ", "NotFound">>
    /\ ReportedDeleted(2) = {"sub-a"}
    /\ ReportedDeleted(1) = {}

====
